---- MODULE Spec2Model ----
(***************************************************************************)
(* A model of the VitTrack tracker of vit_tracker: the crop / resize /     *)
(* normalise transform (preprocess.rs), the decoder of the three output    *)
(* maps (postprocess.rs), the inference wrapper (rknn.rs) and the tracker  *)
(* state machine (tracker.rs).                                             *)
(*                                                                         *)
(* Numbers.  i32 and usize values are integers.  f32 values are modelled   *)
(* as exact rationals: a confidence is an integer count of 1/ConfScale, a  *)
(* Hanning weight an integer count of 1/HannScale, a size or an offset a   *)
(* record [n, d] (n/d, d > 0).  Where the code floors an f32 expression    *)
(* whose exact value is an integer and whose operands are not exactly      *)
(* representable in binary, the f32 result may lie just below that integer *)
(* and floor one lower: the model leaves that choice to a rounding input.  *)
(* The crop size is computed as the code does, step by step in f32 with   *)
(* its 24-bit significand: conversion, square root, product, ceil.         *)
(***************************************************************************)
EXTENDS Integers, Sequences, FiniteSets, TLC

VARIABLES
    config,     \* VitTrack.config
    hanning,    \* VitTrack.hanning
    template,   \* VitTrack.template : None or the template tensor
    rect_last,  \* VitTrack.rect_last : <<x, y, w, h>>
    calls,      \* number of init / update calls made so far
    ret,        \* what the last call returned (or that it panicked)
    last,       \* the last call: its name, its inputs, and what it ran
    fin,        \* inputs of a function applied on its own
    fout        \* its outputs

vars == <<config, hanning, template, rect_last, calls, ret, last, fin, fout>>

----------------------------------------------------------------------------
(* Integer helpers with Rust's semantics.                                  *)

\* Option<Vec<f32>>
None == [some |-> FALSE, tensor |-> <<>>]

Some(t) == [some |-> TRUE, tensor |-> t]

Max(a, b) == IF a >= b THEN a ELSE b

Min(a, b) == IF a <= b THEN a ELSE b

Abs(a) == IF a < 0 THEN -a ELSE a

\* i32 `/` : truncates toward zero.
TruncDiv(a, b) == IF a >= 0 THEN a \div b ELSE -((-a) \div b)

\* Stands for 2^64, the modulus of `as usize`: every coordinate of the model
\* is far below it, so comparisons and saturating_sub come out as with 2^64.
UsizeModulus == 2^30

\* `v as usize` for an i32 v: a negative v wraps around.
AsUsize(v) == IF v < 0 THEN v + UsizeModulus ELSE v

\* usize::saturating_sub
SaturatingSub(a, b) == IF a > b THEN a - b ELSE 0

IsPow2(d) == d \in {1, 2, 4, 8, 16, 32, 64, 128, 256, 512, 1024}

----------------------------------------------------------------------------
(* preprocess.rs                                                           *)

\* MEAN and STD, in thousandths, by channel 0..2.
MeanMilli == <<485, 456, 406>>

StdMilli == <<229, 224, 225>>

\* An image is [h, w, seed]; its pixel (y, x, c), 0-based, is a function of
\* the seed: seed 0 is the all-black image.
Pixel(image, y, x, c) ==
    IF image.seed = 0 THEN 0
    ELSE (image.seed + 53 * y + 17 * x + 5 * c) % 256

BBoxNew(x, y, w, h) == [x |-> x, y |-> y, width |-> w, height |-> h]

\* BBox::area, before the conversion to f32.  The boxes of this model keep
\* width * height inside i32.
Area(bbox) == bbox.width * bbox.height

ToArray(bbox) == <<bbox.x, bbox.y, bbox.width, bbox.height>>

FromArray(arr) == BBoxNew(arr[1], arr[2], arr[3], arr[4])

\* The member of a one-element set: The({e}) computes e once and names it.
The(S) == CHOOSE v \in S : TRUE

\* The number of binary digits of n >= 0 (n < 2^31).
BitLen(n) == IF n = 0 THEN 0 ELSE CHOOSE k \in 1..31 : n \div 2^(k - 1) = 1

\* Rounding to f32: the 24-bit significand nearest to n (ties to even), as
\* [m, e] standing for m * 2^e.  sticky says the exact value lies strictly
\* above n (and below n + 1).
F32Round(n, sticky) ==
    The({IF k <= 0 THEN [m |-> n, e |-> 0]
         ELSE IF (n % 2^k) > 2^(k - 1)
                 \/ ((n % 2^k) = 2^(k - 1) /\ (sticky \/ ((n \div 2^k) % 2) = 1))
              THEN [m |-> (n \div 2^k) + 1, e |-> k]
              ELSE [m |-> n \div 2^k, e |-> k] :
            k \in {BitLen(n) - 24}})

\* floor(sqrt(n))
RECURSIVE Isqrt(_)
Isqrt(n) ==
    IF n < 2 THEN n
    ELSE The({IF (s + 1) * (s + 1) <= n THEN s + 1 ELSE s :
                s \in {2 * Isqrt(n \div 4)}})

\* One more binary digit of a square root: from root = floor(sqrt(n) * 2^shift)
\* and rem = n * 4^shift - root^2 to the same with shift + 1.
SqrtStep(st) ==
    IF 4 * st.rem >= 4 * st.root + 1
    THEN [root |-> 2 * st.root + 1, rem |-> 4 * st.rem - (4 * st.root + 1),
          shift |-> st.shift + 1]
    ELSE [root |-> 2 * st.root, rem |-> 4 * st.rem, shift |-> st.shift + 1]

\* Digits past the point until the root has 25 of them: 24 of significand and
\* the rounding digit.
RECURSIVE SqrtBits(_)
SqrtBits(st) ==
    IF st.root >= 2^24 THEN st
    ELSE The({SqrtBits(next) : next \in {SqrtStep(st)}})

\* The integer part of the square root of m2 and its remainder.
SqrtStart(m2) ==
    The({[root |-> r, rem |-> m2 - r * r, shift |-> 0] : r \in {Isqrt(m2)}})

\* The digits ext of sqrt(m2), rounded to f32 and scaled by 2^half_e.
SqrtRounded(ext, half_e) ==
    The({[m |-> r.m, e |-> r.e - ext.shift + half_e] :
            r \in {F32Round(ext.root, ext.rem # 0)}})

\* f32::sqrt of m * 2^e (m > 0), correctly rounded, as [m, e]: an odd e is
\* made even by doubling m.
F32Sqrt(x) ==
    The({SqrtRounded(ext, (x.e - (x.e % 2)) \div 2) :
            ext \in {SqrtBits(SqrtStart(IF (x.e % 2) = 1 THEN 2 * x.m ELSE x.m))}})

\* x * (factor as f32), rounded.
F32Mul(x, factor) ==
    The({[m |-> p.m, e |-> p.e + x.e] : p \in {F32Round(x.m * factor, FALSE)}})

\* f32::ceil, then `as i32`.
F32Ceil(x) ==
    IF x.e >= 0 THEN x.m * 2^x.e
    ELSE IF -x.e >= 26 THEN (IF x.m > 0 THEN 1 ELSE 0)
    ELSE (x.m + 2^(-x.e) - 1) \div 2^(-x.e)

\* (bbox.area().sqrt() * factor as f32).ceil() as i32, each step in f32.
\* The sqrt of a negative area is NaN, and NaN as i32 is 0.
CropSz(bbox, factor) ==
    IF Area(bbox) <= 0 THEN 0
    ELSE The({F32Ceil(p) :
                p \in {F32Mul(r, factor) :
                    r \in {F32Sqrt(a) : a \in {F32Round(Area(bbox), FALSE)}}}})

\* The geometry of the crop: lines 62-96.
CropGeometry(image, bbox, factor) ==
    LET img_h == image.h
        img_w == image.w
        crop_sz == CropSz(bbox, factor)
        x1 == bbox.x + TruncDiv(bbox.width - crop_sz, 2)
        x2 == x1 + crop_sz
        y1 == bbox.y + TruncDiv(bbox.height - crop_sz, 2)
        y2 == y1 + crop_sz
        x1_pad == Max(-x1, 0)
        y1_pad == Max(-y1, 0)
        x2_pad == Max(x2 - img_w, 0)
        y2_pad == Max(y2 - img_h, 0)
        roi_x1 == AsUsize(Max(x1 + x1_pad, 0))
        roi_y1 == AsUsize(Max(y1 + y1_pad, 0))
        roi_x2 == AsUsize(Min(x2 - x2_pad, img_w))
        roi_y2 == AsUsize(Min(y2 - y2_pad, img_h))
    IN  [crop_sz |-> crop_sz,
         x1 |-> x1, x2 |-> x2, y1 |-> y1, y2 |-> y2,
         roi_x1 |-> roi_x1, roi_y1 |-> roi_y1,
         roi_x2 |-> roi_x2, roi_y2 |-> roi_y2,
         crop_h |-> AsUsize(crop_sz), crop_w |-> AsUsize(crop_sz),
         src_h |-> SaturatingSub(roi_y2, roi_y1),
         src_w |-> SaturatingSub(roi_x2, roi_x1),
         dst_y1 |-> AsUsize(y1_pad), dst_x1 |-> AsUsize(x1_pad)]

\* The (y, x) for which the copy loop of lines 98-108 reaches its assignment:
\* y in 0..src_h, x in 0..src_w, past the guard of line 98 and that of
\* line 102.
CopyOffsets(image, g) ==
    IF g.src_h > 0 /\ g.src_w > 0 /\ g.roi_y1 < image.h /\ g.roi_x1 < image.w
    THEN (0..(Min(g.src_h, image.h - g.roi_y1) - 1))
            \X (0..(Min(g.src_w, image.w - g.roi_x1) - 1))
    ELSE {}

\* The <<row, column>> indices into the padded crop that line 103 writes.
CropWrites(image, bbox, factor) ==
    LET g == CropGeometry(image, bbox, factor)
    IN  {<<g.dst_y1 + yx[1], g.dst_x1 + yx[2]>> : yx \in CopyOffsets(image, g)}

\* ndarray panics on an index outside the array.
CropPanics(image, bbox, factor) ==
    LET g == CropGeometry(image, bbox, factor)
    IN  \E rc \in CropWrites(image, bbox, factor) :
            rc[1] >= g.crop_h \/ rc[2] >= g.crop_w

\* The padded crop after the copy: zero where nothing was written.
CropAt(image, g, y, x, c) ==
    IF <<y - g.dst_y1, x - g.dst_x1>> \in CopyOffsets(image, g)
    THEN Pixel(image, g.roi_y1 + (y - g.dst_y1), g.roi_x1 + (x - g.dst_x1), c)
    ELSE 0

\* resize_bilinear, one destination value.  scale = old / new, src = y * scale,
\* so with everything over the denominator new: src_y = (y * old) / new.
ResizeAt(image, g, new, y, x, c) ==
    LET old_h == g.crop_h
        old_w == g.crop_w
    IN  IF old_h = 0 \/ old_w = 0 THEN 0
        ELSE
        LET y0 == Min((y * old_h) \div new, SaturatingSub(old_h, 1))
            y1 == Min(y0 + 1, SaturatingSub(old_h, 1))
            x0 == Min((x * old_w) \div new, SaturatingSub(old_w, 1))
            x1 == Min(x0 + 1, SaturatingSub(old_w, 1))
            dy == y * old_h - y0 * new      \* dy * new
            dx == x * old_w - x0 * new      \* dx * new
            v00 == CropAt(image, g, y0, x0, c)
            v01 == CropAt(image, g, y0, x1, c)
            v10 == CropAt(image, g, y1, x0, c)
            v11 == CropAt(image, g, y1, x1, c)
            value == v00 * (new - dx) * (new - dy) + v01 * dx * (new - dy)
                     + v10 * (new - dx) * dy + v11 * dx * dy  \* value * new^2
            rounded == (2 * value + new * new) \div (2 * new * new)
        IN  Max(0, Min(rounded, 255))

\* preprocess_nhwc, one value: (p / 255 - MEAN[ch]) / STD[ch], in thousandths.
Normalize(p, ch) ==
    ((1000 * p - 255 * MeanMilli[ch + 1]) * 1000) \div (255 * StdMilli[ch + 1])

\* crop_and_preprocess: the tensor (flat, idx = y * w * 3 + x * 3 + ch) and
\* the crop size, or a panic.
CropAndPreprocess(image, bbox, factor, output_size) ==
    LET g == CropGeometry(image, bbox, factor)
    IN  IF CropPanics(image, bbox, factor)
        THEN [panicked |-> TRUE, tensor |-> <<>>, crop_size |-> g.crop_sz]
        ELSE [panicked |-> FALSE,
              tensor |-> [i \in 1..(output_size * output_size * 3) |->
                            LET k == i - 1
                                y == k \div (output_size * 3)
                                x == (k % (output_size * 3)) \div 3
                                ch == k % 3
                            IN  Normalize(ResizeAt(image, g, output_size, y, x, ch), ch)],
              crop_size |-> g.crop_sz]

----------------------------------------------------------------------------
(* postprocess.rs                                                          *)

\* Units of the fixed-point model of f32: a confidence c stands for
\* c / ConfScale, a 1-D Hanning weight h for h / HannScale.
ConfScale == 100

HannScale == 100

\* const SCORE_SIZE inside process_outputs.
SCORE_SIZE == 16

\* The literal 256 of the channel stride in process_outputs.
ChannelStride == 256

\* f32::NEG_INFINITY: below every value of the model.
NegInf == -(2^30)

\* TrackingResult::default
DefaultResult == [success |-> FALSE, bbox |-> <<0, 0, 0, 0>>, score |-> 0]

\* hann1d(size)[i] = 0.5 * (1 - cos(2 pi (i+1) / (size+1))) = sin^2(pi k / m),
\* k = i + 1, m = size + 1.  The sine is taken by Bhaskara's rational formula
\* sin(pi t) ~ 16 t (1-t) / (5 - 4 t (1-t)), which keeps the window's shape:
\* positive, symmetric, rising to the middle.
Hann1dAt(size, i) ==
    LET k == i + 1
        m == size + 1
        num == 16 * k * (m - k)
        den == 5 * m * m - 4 * k * (m - k)
    IN  (HannScale * num * num) \div (den * den)

hann1d(size) == [j \in 1..size |-> Hann1dAt(size, j - 1)]

\* hann2d: window[r * cols + c] = hann_rows[r] * hann_cols[c], flat.
hann2d(rows, cols) ==
    LET hann_rows == hann1d(rows)
        hann_cols == hann1d(cols)
    IN  [j \in 1..(rows * cols) |->
            hann_rows[((j - 1) \div cols) + 1] * hann_cols[((j - 1) % cols) + 1]]

\* A confidence map as the collaborator returns it: len values, val at the
\* index hot, bg elsewhere.
ConfAt(m, i) == IF i = m.hot THEN m.val ELSE m.bg

\* A size or offset map: len values, layout [2, 16, 16]; the collaborator
\* wrote c0 and c1 (channels 0 and 1) at the cell hot and bg elsewhere.
PairAt(m, i) ==
    IF i = m.hot THEN m.c0
    ELSE IF i = ChannelStride + m.hot THEN m.c1
    ELSE m.bg

\* The windowed map of lines 72-75, indices 0..255.
Windowed(conf_map, hann) ==
    [i \in 0..(SCORE_SIZE * SCORE_SIZE - 1) |-> ConfAt(conf_map, i) * hann[i + 1]]

\* The iteration with `>=` in place of `>`: the last occurrence would win.
FindMaxStepLast(arr, idx, st) ==
    IF arr[idx] >= st[2] THEN <<idx, arr[idx]>> ELSE st

\* One iteration of the loop of find_max (lines 118-123) on its state
\* <<max_idx, max_val>>.
FindMaxStep(arr, idx, st) ==
    IF arr[idx] > st[2] THEN <<idx, arr[idx]>> ELSE st

\* The iterations idx = lo .. hi - 1 of that loop, in order, from the state
\* st: the first half, then the second half from where the first ended.
\* (Halving keeps the evaluation shallow; max_idx < mid holds after the first
\* half, and testing it makes the first half finish before the second starts.)
RECURSIVE FindMaxLoop(_, _, _, _)
FindMaxLoop(arr, lo, hi, st) ==
    IF hi <= lo THEN st
    ELSE IF hi = lo + 1 THEN FindMaxStep(arr, lo, st)
    ELSE LET mid == (lo + hi) \div 2
             half == FindMaxLoop(arr, lo, mid, st)
         IN  IF half[1] < mid THEN FindMaxLoop(arr, mid, hi, half) ELSE half

\* find_max over arr[0 .. n-1]: <<max_idx, max_val>>.
find_max(arr, n) == FindMaxLoop(arr, 0, n, <<0, NegInf>>)

\* floor of the f32 value of n / d (d > 0): the exact floor, except that an
\* inexact computation whose exact value is an integer may have come out just
\* below it (down).
FloorF(n, d, inexact, down) ==
    IF n % d = 0 /\ inexact /\ down THEN (n \div d) - 1 ELSE n \div d

\* update_rect taking the previous box's corner for the crop's origin.
update_rect_uncentred(rect, cx, cy, w, h, crop_size, rnd) ==
    LET x1 == [n |-> 2 * w.d * cx.n - cx.d * w.n, d |-> 2 * cx.d * w.d]
        y1 == [n |-> 2 * h.d * cy.n - cy.d * h.n, d |-> 2 * cy.d * h.d]
    IN  <<FloorF(x1.n * crop_size, x1.d, ~IsPow2(x1.d), rnd.x) + rect[1],
          FloorF(y1.n * crop_size, y1.d, ~IsPow2(y1.d), rnd.y) + rect[2],
          FloorF(w.n * crop_size, w.d, ~IsPow2(w.d), rnd.w),
          FloorF(h.n * crop_size, h.d, ~IsPow2(h.d), rnd.h)>>

\* update_rect.  cx, cy, w, h are rationals [n, d]; rnd says which of the
\* four floors came out low.
update_rect(rect, cx, cy, w, h, crop_size, rnd) ==
    LET x0 == rect[1] + TruncDiv(rect[3] - crop_size, 2)
        y0 == rect[2] + TruncDiv(rect[4] - crop_size, 2)
        \* x1 = cx - w / 2.0, y1 = cy - h / 2.0
        x1 == [n |-> 2 * w.d * cx.n - cx.d * w.n, d |-> 2 * cx.d * w.d]
        y1 == [n |-> 2 * h.d * cy.n - cy.d * h.n, d |-> 2 * cy.d * h.d]
        ix == ~IsPow2(x1.d)
        iy == ~IsPow2(y1.d)
    IN  <<FloorF(x1.n * crop_size, x1.d, ix, rnd.x) + x0,
          FloorF(y1.n * crop_size, y1.d, iy, rnd.y) + y0,
          FloorF(w.n * crop_size, w.d, ~IsPow2(w.d), rnd.w),
          FloorF(h.n * crop_size, h.d, ~IsPow2(h.d), rnd.h)>>

\* A windowed score counts units of 1 / ScoreUnit.
ScoreUnit == ConfScale * HannScale * HannScale

\* ReachesThreshold with > for >=.
ReachesThresholdStrict(max_score, threshold) ==
    max_score * threshold.d > threshold.n

\* max_score >= threshold: the score a count of score units, the threshold
\* a rational [n, d] number of them.
ReachesThreshold(max_score, threshold) ==
    max_score * threshold.d >= threshold.n

\* What the model records of a process_outputs that panicked.
PanicOutputs(rect, max_idx, max_score) ==
    [panicked |-> TRUE, result |-> DefaultResult, rect_last |-> rect,
     max_idx |-> max_idx, max_score |-> max_score, origin |-> rect]

\* process_outputs, the branch max_score >= threshold (lines 82-103).
\* Indexing a slice past its end panics.
DecodePeak(size_map, offset_map, rect, crop_size, rnd, max_idx, max_score) ==
    LET max_loc_y == max_idx \div SCORE_SIZE
        max_loc_x == max_idx % SCORE_SIZE
        at0 == 0 * ChannelStride + max_loc_y * SCORE_SIZE + max_loc_x
        at1 == 1 * ChannelStride + max_loc_y * SCORE_SIZE + max_loc_x
    IN  IF at1 >= offset_map.len \/ at1 >= size_map.len
        THEN PanicOutputs(rect, max_idx, max_score)
        ELSE
        LET offset_x == PairAt(offset_map, at0)
            offset_y == PairAt(offset_map, at1)
            size_w == PairAt(size_map, at0)
            size_h == PairAt(size_map, at1)
            cx == [n |-> max_loc_x * offset_x.d + offset_x.n,
                   d |-> SCORE_SIZE * offset_x.d]
            cy == [n |-> max_loc_y * offset_y.d + offset_y.n,
                   d |-> SCORE_SIZE * offset_y.d]
        IN  [panicked |-> FALSE,
             result |-> [success |-> TRUE,
                         bbox |-> update_rect(rect, cx, cy, size_w, size_h, crop_size, rnd),
                         score |-> max_score],
             rect_last |-> update_rect(rect, cx, cy, size_w, size_h, crop_size, rnd),
             max_idx |-> max_idx, max_score |-> max_score, origin |-> rect]

\* DecodeFound answering a loss with the default result and a cleared box.
DecodeFoundResets(size_map, offset_map, rect, crop_size, threshold, rnd, found) ==
    IF ReachesThreshold(found[2], threshold)
    THEN DecodePeak(size_map, offset_map, rect, crop_size, rnd, found[1], found[2])
    ELSE [panicked |-> FALSE,
          result |-> [DefaultResult EXCEPT !.score = found[2]],
          rect_last |-> <<0, 0, 0, 0>>,
          max_idx |-> found[1], max_score |-> found[2], origin |-> rect]

\* process_outputs, from the maximum found on (lines 77-111).
DecodeFound(size_map, offset_map, rect, crop_size, threshold, rnd, found) ==
    IF ReachesThreshold(found[2], threshold)
    THEN DecodePeak(size_map, offset_map, rect, crop_size, rnd, found[1], found[2])
    ELSE [panicked |-> FALSE,
          result |-> [success |-> FALSE, bbox |-> rect, score |-> found[2]],
          rect_last |-> rect,
          max_idx |-> found[1], max_score |-> found[2], origin |-> rect]

\* process_outputs.  The windowing loop reads conf_map[i] and hanning[i] for
\* i < 256 and panics past the end of either.
process_outputs(conf_map, size_map, offset_map, hann, rect, crop_size, threshold, rnd) ==
    IF conf_map.len < SCORE_SIZE * SCORE_SIZE \/ Len(hann) < SCORE_SIZE * SCORE_SIZE
    THEN PanicOutputs(rect, 0, NegInf)
    ELSE DecodeFound(size_map, offset_map, rect, crop_size, threshold, rnd,
                     find_max(Windowed(conf_map, hann), SCORE_SIZE * SCORE_SIZE))

----------------------------------------------------------------------------
(* rknn.rs                                                                 *)

\* RknnModel::inference.  The collaborator (the rknn runtime) is an input:
\* whether inputs_set, run and outputs_get succeed, and the outputs that
\* outputs_get hands back.  outputs[0..2] are indexed without a check.
Inference(collab) ==
    IF ~collab.set_ok THEN [kind |-> "err", err |-> "InputError"]
    ELSE IF ~collab.run_ok THEN [kind |-> "err", err |-> "RunError"]
    ELSE IF ~collab.get_ok THEN [kind |-> "err", err |-> "OutputError"]
    ELSE IF Len(collab.outputs) < 3 THEN [kind |-> "panic", err |-> ""]
    ELSE [kind |-> "ok", err |-> "",
          conf_map |-> collab.outputs[1],
          size_map |-> collab.outputs[2],
          offset_map |-> collab.outputs[3]]

----------------------------------------------------------------------------
(* tracker.rs                                                              *)

\* VitTrackConfig::default, the numbers of lines 21-25.
DefaultTemplateFactor == 2

DefaultSearchFactor == 4

DefaultScoreSize == 16

\* score_threshold: 0.25, that is ScoreUnit / 4 score units.
DefaultThreshold == [n |-> ScoreUnit, d |-> 4]

\* The tensor sizes the tracker of the model is configured with (with_config).
TemplateSize == 2

SearchSize == 2

NoTrace ==
    [inferred |-> FALSE, decoded |-> FALSE,
     crop_box |-> <<0, 0, 0, 0>>, crop_size |-> 0,
     origin |-> <<0, 0, 0, 0>>, max_idx |-> 0, max_score |-> 0]

\* VitTrack::with_config, after a successful load.
WithConfig(cfg) ==
    [config |-> cfg,
     hanning |-> hann2d(cfg.score_size, cfg.score_size),
     template |-> None,
     rect_last |-> <<0, 0, 0, 0>>]

\* VitTrack::init, lines 81-82: the template crop has been made.
InitCropped(moved, bbox, made) ==
    IF made.panicked
    THEN [self |-> moved, ret |-> [kind |-> "panic"],
          trace |-> [NoTrace EXCEPT !.crop_box = ToArray(bbox),
                                    !.crop_size = made.crop_size]]
    ELSE [self |-> [moved EXCEPT !.template = Some(made.tensor)],
          ret |-> [kind |-> "unit"],
          trace |-> [NoTrace EXCEPT !.crop_box = ToArray(bbox),
                                    !.crop_size = made.crop_size]]

\* VitTrack::init: rect_last is assigned before the crop is taken.
InitCall(self, image, bbox) ==
    InitCropped([self EXCEPT !.rect_last = ToArray(bbox)], bbox,
                CropAndPreprocess(image, bbox, self.config.template_factor,
                                  self.config.template_size))

\* UpdateDecoded dropping the template when the decoder reports a loss.
UpdateDecodedDropsTemplate(self, trace, done) ==
    [self |-> IF done.panicked THEN self
              ELSE IF done.result.success
                   THEN [self EXCEPT !.rect_last = done.rect_last]
                   ELSE [self EXCEPT !.rect_last = done.rect_last, !.template = None],
     ret |-> IF done.panicked THEN [kind |-> "panic"]
             ELSE [kind |-> "ok", result |-> done.result],
     trace |-> [trace EXCEPT !.decoded = TRUE, !.origin = done.origin,
                             !.max_idx = done.max_idx,
                             !.max_score = done.max_score]]

\* UpdateDecoded returning the decoded box without keeping it.
UpdateDecodedKeepsBox(self, trace, done) ==
    [self |-> self,
     ret |-> IF done.panicked THEN [kind |-> "panic"]
             ELSE [kind |-> "ok", result |-> done.result],
     trace |-> [trace EXCEPT !.decoded = TRUE, !.origin = done.origin,
                             !.max_idx = done.max_idx,
                             !.max_score = done.max_score]]

\* VitTrack::update, lines 116-127: the decoder has run (done).
UpdateDecoded(self, trace, done) ==
    IF done.panicked
    THEN [self |-> self, ret |-> [kind |-> "panic"],
          trace |-> [trace EXCEPT !.decoded = TRUE, !.origin = done.origin,
                                  !.max_idx = done.max_idx,
                                  !.max_score = done.max_score]]
    ELSE [self |-> [self EXCEPT !.rect_last = done.rect_last],
          ret |-> [kind |-> "ok", result |-> done.result],
          trace |-> [trace EXCEPT !.decoded = TRUE, !.origin = done.origin,
                                  !.max_idx = done.max_idx,
                                  !.max_score = done.max_score]]

\* UpdateInferred swallowing an Err of the collaborator.
UpdateInferredSwallows(self, trace, rnd, outputs) ==
    IF outputs.kind = "err"
    THEN [self |-> self, ret |-> [kind |-> "ok", result |-> DefaultResult],
          trace |-> trace]
    ELSE IF outputs.kind = "panic"
    THEN [self |-> self, ret |-> [kind |-> "panic"], trace |-> trace]
    ELSE UpdateDecoded(self, trace,
            process_outputs(outputs.conf_map, outputs.size_map, outputs.offset_map,
                            self.hanning, self.rect_last, trace.crop_size,
                            self.config.score_threshold, rnd))

\* VitTrack::update, lines 114-127: inference has returned outputs; `?` hands
\* an Err back to the caller.
UpdateInferred(self, trace, rnd, outputs) ==
    IF outputs.kind = "err"
    THEN [self |-> self, ret |-> [kind |-> "err", err |-> outputs.err],
          trace |-> trace]
    ELSE IF outputs.kind = "panic"
    THEN [self |-> self, ret |-> [kind |-> "panic"], trace |-> trace]
    ELSE UpdateDecoded(self, trace,
            process_outputs(outputs.conf_map, outputs.size_map, outputs.offset_map,
                            self.hanning, self.rect_last, trace.crop_size,
                            self.config.score_threshold, rnd))

\* VitTrack::update, lines 106-127: the search crop has been made.
UpdateCropped(self, collab, rnd, made) ==
    IF made.panicked
    THEN [self |-> self, ret |-> [kind |-> "panic"],
          trace |-> [NoTrace EXCEPT !.crop_box = self.rect_last,
                                    !.crop_size = made.crop_size]]
    ELSE UpdateInferred(self,
                        [NoTrace EXCEPT !.crop_box = self.rect_last,
                                        !.crop_size = made.crop_size,
                                        !.inferred = TRUE],
                        rnd, Inference(collab))

\* UpdateCall without the early return of lines 97-102.
UpdateCallUnguarded(self, image, collab, rnd) ==
    UpdateCropped(self, collab, rnd,
        CropAndPreprocess(image, FromArray(self.rect_last),
                          self.config.search_factor, self.config.search_size))

\* VitTrack::update.
UpdateCall(self, image, collab, rnd) ==
    IF self.template = None
    THEN [self |-> self, ret |-> [kind |-> "ok", result |-> DefaultResult],
          trace |-> NoTrace]
    ELSE UpdateCropped(self, collab, rnd,
            CropAndPreprocess(image, FromArray(self.rect_last),
                              self.config.search_factor, self.config.search_size))

\* VitTrack::get_bbox, VitTrack::is_initialized
get_bbox(self) == self.rect_last

is_initialized(self) == self.template # None

----------------------------------------------------------------------------
(* The inputs the model draws.                                             *)

\* Most init / update calls of one run.
MaxCalls == 3

\* Side of the square test image.
ImgSize == 6

Rat(n, d) == [n |-> n, d |-> d]

Zero == Rat(0, 1)

ConfMap(len, hot, val, bg) == [len |-> len, hot |-> hot, val |-> val, bg |-> bg]

PairMap(len, hot, c0, c1, bg) ==
    [len |-> len, hot |-> hot, c0 |-> c0, c1 |-> c1, bg |-> bg]

\* The shapes the tracker expects: 1x1x16x16 and 1x2x16x16.
ConfLen == SCORE_SIZE * SCORE_SIZE

PairLen == 2 * SCORE_SIZE * SCORE_SIZE

\* Grid cell (row, col) as a flat index.
Cell(row, col) == row * SCORE_SIZE + col

NoImage == [h |-> 0, w |-> 0, seed |-> 0]

Images ==
    {[h |-> ImgSize, w |-> ImgSize, seed |-> 0],
     [h |-> ImgSize, w |-> ImgSize, seed |-> 41],
     NoImage}

\* Boxes handed to init: inside the image, of zero area, and wholly outside
\* the image on the left, top, right and bottom.
InitBoxes ==
    {BBoxNew(1, 1, 2, 2), BBoxNew(2, 3, 0, 3),
     BBoxNew(-20, 1, 2, 2), BBoxNew(1, -20, 2, 2),
     BBoxNew(30, 1, 2, 2), BBoxNew(1, 30, 2, 2)}

Collab(set_ok, run_ok, get_ok, outputs) ==
    [set_ok |-> set_ok, run_ok |-> run_ok, get_ok |-> get_ok, outputs |-> outputs]

NoCollab == Collab(FALSE, FALSE, FALSE, <<>>)

Returns(outputs) == Collab(TRUE, TRUE, TRUE, outputs)

Quarter == Rat(1, 4)

\* A threshold set (with_config) to exactly the windowed score of BoundaryMap
\* at its peak, cell (8, 8).
BoundaryMap == ConfMap(ConfLen, Cell(8, 8), 60, 0)

BoundaryThreshold ==
    [n |-> Windowed(BoundaryMap,
                    hann2d(DefaultScoreSize, DefaultScoreSize))[Cell(8, 8)],
     d |-> 1]

FlatSizes(len, hot) == PairMap(len, hot, Quarter, Rat(1, 8), Rat(1, 16))

FlatOffsets(len, hot) == PairMap(len, hot, Rat(1, 2), Zero, Zero)

ZeroOffsets(len, hot) == PairMap(len, hot, Zero, Zero, Rat(1, 2))

\* What the collaborator may do in one update of a tracker whose last box is
\* rect and whose search crop has side crop_size.
Collabs(rect, crop_size) ==
    {Collab(FALSE, TRUE, TRUE, <<>>), Collab(TRUE, FALSE, TRUE, <<>>),
     Collab(TRUE, TRUE, FALSE, <<>>)}
    \cup
    \* well-shaped maps: a low peak, a peak that moves the box, a peak at the
    \* boundary confidence, a flat map
    {Returns(<<ConfMap(ConfLen, Cell(8, 8), 20, 0),
               FlatSizes(PairLen, Cell(8, 8)), ZeroOffsets(PairLen, Cell(8, 8))>>),
     Returns(<<ConfMap(ConfLen, Cell(7, 9), 90, 10),
               FlatSizes(PairLen, Cell(7, 9)), FlatOffsets(PairLen, Cell(7, 9))>>),
     Returns(<<BoundaryMap,
               FlatSizes(PairLen, Cell(8, 8)), ZeroOffsets(PairLen, Cell(8, 8))>>),
     Returns(<<ConfMap(ConfLen, Cell(8, 8), 50, 50),
               FlatSizes(PairLen, Cell(8, 8)), ZeroOffsets(PairLen, Cell(8, 8))>>)}
    \cup
    \* a peak up and left of the centre, of zero size: the box collapses
    {Returns(<<ConfMap(ConfLen, Cell(4, 4), 90, 0),
               PairMap(PairLen, Cell(4, 4), Zero, Zero, Quarter),
               PairMap(PairLen, Cell(4, 4), Rat(-1, 2), Rat(-1, 2), Zero)>>)}
    \cup
    \* a peak at (8, 8) whose size is the last box's share of the crop
    (IF crop_size > 0
     THEN {Returns(<<ConfMap(ConfLen, Cell(8, 8), 90, 10),
                     PairMap(PairLen, Cell(8, 8), Rat(rect[3], crop_size),
                             Rat(rect[4], crop_size), Quarter),
                     ZeroOffsets(PairLen, Cell(8, 8))>>)}
     ELSE {})
    \cup
    \* mis-shaped outputs: a short or long confidence map, a short or long
    \* size map, a short offset map, two outputs instead of three
    {Returns(<<ConfMap(ConfLen - 1, Cell(8, 8), 90, 0),
               FlatSizes(PairLen, Cell(8, 8)), ZeroOffsets(PairLen, Cell(8, 8))>>),
     Returns(<<ConfMap(ConfLen + 1, Cell(8, 8), 90, 0),
               FlatSizes(PairLen, Cell(8, 8)), ZeroOffsets(PairLen, Cell(8, 8))>>),
     Returns(<<ConfMap(ConfLen, Cell(8, 8), 90, 0),
               FlatSizes(ConfLen, Cell(8, 8)), ZeroOffsets(PairLen, Cell(8, 8))>>),
     Returns(<<ConfMap(ConfLen, Cell(8, 8), 90, 0),
               FlatSizes(PairLen + 1, Cell(8, 8)), ZeroOffsets(PairLen, Cell(8, 8))>>),
     Returns(<<ConfMap(ConfLen, Cell(8, 8), 90, 0),
               FlatSizes(PairLen, Cell(8, 8)), ZeroOffsets(ConfLen, Cell(8, 8))>>),
     Returns(<<ConfMap(ConfLen, Cell(8, 8), 90, 0),
               FlatSizes(PairLen, Cell(8, 8))>>)}

NoRounding == [x |-> FALSE, y |-> FALSE, w |-> FALSE, h |-> FALSE]

\* The ways the four floors of update_rect may round: open only when a size or
\* an offset of the outputs is not a binary fraction.
Roundings(collab) ==
    IF /\ Len(collab.outputs) >= 3
       /\ \E k \in 2..3 : \E f \in {"c0", "c1", "bg"} : ~IsPow2(collab.outputs[k][f].d)
    THEN [x : BOOLEAN, y : BOOLEAN, w : BOOLEAN, h : BOOLEAN]
    ELSE {NoRounding}

----------------------------------------------------------------------------
(* The tracker as a state machine: construction, then init and update      *)
(* calls, one at a time (the tracker is used from one thread).  A panic    *)
(* ends the run.                                                           *)

Self ==
    [config |-> config, hanning |-> hanning,
     template |-> template, rect_last |-> rect_last]

Configs ==
    {[template_size |-> TemplateSize, search_size |-> SearchSize,
      score_size |-> DefaultScoreSize,
      template_factor |-> DefaultTemplateFactor,
      search_factor |-> DefaultSearchFactor,
      score_threshold |-> t] : t \in {DefaultThreshold, BoundaryThreshold}}

NoCall ==
    [op |-> "none", image |-> NoImage, bbox |-> BBoxNew(0, 0, 0, 0),
     collab |-> NoCollab, trace |-> NoTrace]

NotApplied == [done |-> FALSE]

Idle == /\ fin = [fn |-> "none"]
        /\ fout = NotApplied

Init ==
    /\ \E cfg \in Configs :
          LET self == WithConfig(cfg)
          IN  /\ config = self.config
              /\ hanning = self.hanning
              /\ template = self.template
              /\ rect_last = self.rect_last
    /\ calls = 0
    /\ ret = [kind |-> "none"]
    /\ last = NoCall
    /\ Idle

Running == calls < MaxCalls /\ ret.kind # "panic"

Store(self) ==
    /\ config' = self.config
    /\ hanning' = self.hanning
    /\ template' = self.template
    /\ rect_last' = self.rect_last

\* The call returns: the tracker's fields, the return value and the record of
\* the call (its inputs, and what it ran) are stored.
Return(done, call) ==
    /\ Store(done.self)
    /\ ret' = done.ret
    /\ last' = [call EXCEPT !.trace = done.trace,
                            !.collab = IF done.trace.inferred THEN call.collab
                                       ELSE NoCollab]
    /\ calls' = calls + 1
    /\ UNCHANGED <<fin, fout>>

DoInit ==
    /\ Running
    /\ \E image \in Images, bbox \in InitBoxes :
          Return(InitCall(Self, image, bbox),
                 [NoCall EXCEPT !.op = "init", !.image = image, !.bbox = bbox])

DoUpdate ==
    /\ Running
    /\ \E image \in Images :
       \E collab \in Collabs(rect_last, CropSz(FromArray(rect_last), config.search_factor)) :
       \E rnd \in Roundings(collab) :
          Return(UpdateCall(Self, image, collab, rnd),
                 [NoCall EXCEPT !.op = "update", !.collab = collab])

Next == DoInit \/ DoUpdate

Spec == Init /\ [][Next]_vars

----------------------------------------------------------------------------
(* crop_and_preprocess on its own: the inputs are drawn, the function is   *)
(* applied once.                                                           *)

CropCoords == {-20, -3, 0, 2, ImgSize, 30}

\* Small sides, the 50 of the crate's test, and a box of a 4K frame.
CropSides == {0, 1, 2, 3, 5, 50, 2017, 2081}

CropImages ==
    Images \cup {[h |-> ImgSize, w |-> ImgSize - 2, seed |-> 41],
                 [h |-> ImgSize, w |-> ImgSize, seed |-> 255]}

CropInputs ==
    {[fn |-> "crop_and_preprocess", image |-> im, bbox |-> BBoxNew(x, y, w, h),
      factor |-> f, output_size |-> TemplateSize] :
        im \in CropImages, x \in CropCoords, y \in CropCoords,
        w \in CropSides, h \in CropSides,
        f \in {DefaultTemplateFactor, DefaultSearchFactor}}

Constructed ==
    /\ \E cfg \in Configs :
          /\ cfg.score_threshold = DefaultThreshold
          /\ config = cfg
          /\ hanning = WithConfig(cfg).hanning
          /\ template = WithConfig(cfg).template
          /\ rect_last = WithConfig(cfg).rect_last
    /\ calls = 0
    /\ ret = [kind |-> "none"]
    /\ last = NoCall

InitCrop ==
    /\ Constructed
    /\ fin \in CropInputs
    /\ fout = NotApplied

ApplyCrop ==
    /\ ~fout.done
    /\ fout' = [done |-> TRUE,
                out |-> CropAndPreprocess(fin.image, fin.bbox, fin.factor,
                                          fin.output_size),
                writes |-> CropWrites(fin.image, fin.bbox, fin.factor)]
    /\ UNCHANGED <<config, hanning, template, rect_last, calls, ret, last, fin>>

SpecCrop == InitCrop /\ [][ApplyCrop]_vars

----------------------------------------------------------------------------
(* process_outputs on its own, with the 16 x 16 window of the tracker.     *)

DecodeRects == {<<10, 10, 5, 5>>, <<3, -4, 6, 3>>, <<7, 2, 0, 4>>, <<-5, 8, 9, 4>>}

DecodeCells == {Cell(8, 8), Cell(0, 0), Cell(7, 9), Cell(15, 15)}

DecodeConfMaps ==
    {ConfMap(ConfLen, hot, val, bg) :
        hot \in DecodeCells, val \in {-10, 20, 60, 90}, bg \in {-30, 0, 60}}

\* The size maps: fixed shares, and (for a crop of positive side) the share
\* of the crop that the previous box takes.
DecodeSizeMaps(rect, crop_size, hot) ==
    {FlatSizes(PairLen, hot), PairMap(PairLen, hot, Zero, Zero, Quarter)}
    \cup (IF crop_size > 0
          THEN {PairMap(PairLen, hot, Rat(rect[3], crop_size),
                        Rat(rect[4], crop_size), Quarter)}
          ELSE {})

DecodeInput(c, sz, off, r, f, t, rnd) ==
    [fn |-> "process_outputs", conf_map |-> c, size_map |-> sz, offset_map |-> off,
     rect |-> r, factor |-> f, crop_size |-> CropSz(FromArray(r), f),
     threshold |-> t, rnd |-> rnd]

InitDecode ==
    /\ Constructed
    /\ \E c \in DecodeConfMaps, r \in DecodeRects,
          f \in {DefaultTemplateFactor, DefaultSearchFactor},
          t \in {DefaultThreshold, BoundaryThreshold} :
       \E sz \in DecodeSizeMaps(r, CropSz(FromArray(r), f), c.hot),
          off \in {FlatOffsets(PairLen, c.hot), ZeroOffsets(PairLen, c.hot)} :
       \E rnd \in Roundings(Returns(<<c, sz, off>>)) :
          fin = DecodeInput(c, sz, off, r, f, t, rnd)
    /\ fout = NotApplied

ApplyDecode ==
    /\ ~fout.done
    /\ fout' = [done |-> TRUE,
                out |-> process_outputs(fin.conf_map, fin.size_map, fin.offset_map,
                                        hanning, fin.rect, fin.crop_size,
                                        fin.threshold, fin.rnd)]
    /\ UNCHANGED <<config, hanning, template, rect_last, calls, ret, last, fin>>

SpecDecode == InitDecode /\ [][ApplyDecode]_vars

----------------------------------------------------------------------------
(* find_max on its own: over short arrays of every shape, and over the     *)
(* windowed maps of the decoder.                                           *)

MaxArr == 5

FindMaxValues == {1, 5, 9}

\* The array of tests::test_find_max, in tenths.
TestArr == [i \in 0..4 |-> <<1, 5, 3, 9, 2>>[i + 1]]

InitFindMax ==
    /\ Constructed
    /\ \/ \E n \in 0..MaxArr : \E a \in [0..(n - 1) -> FindMaxValues] :
              fin = [fn |-> "find_max", arr |-> a, n |-> n]
       \/ fin = [fn |-> "find_max", arr |-> TestArr, n |-> 5]
       \/ \E c \in DecodeConfMaps :
              fin = [fn |-> "find_max", arr |-> Windowed(c, hanning),
                     n |-> SCORE_SIZE * SCORE_SIZE]
    /\ fout = NotApplied

ApplyFindMax ==
    /\ ~fout.done
    /\ fout' = [done |-> TRUE, out |-> find_max(fin.arr, fin.n)]
    /\ UNCHANGED <<config, hanning, template, rect_last, calls, ret, last, fin>>

SpecFindMax == InitFindMax /\ [][ApplyFindMax]_vars

----------------------------------------------------------------------------
(* The decoder behind a tracker constructed with any score_size: the        *)
(* collaborator's maps have the shape of that grid, 1 x 1 x n x n and       *)
(* 1 x 2 x n x n.                                                           *)

GridSizes == {4, DefaultScoreSize, 20}

GridConfigs ==
    {[template_size |-> TemplateSize, search_size |-> SearchSize,
      score_size |-> n,
      template_factor |-> DefaultTemplateFactor,
      search_factor |-> DefaultSearchFactor,
      score_threshold |-> DefaultThreshold] : n \in GridSizes}

\* The indices at which the windowing loop (lines 73-75) reads conf_map and
\* hanning: i = 0, 1, ... up to 255, or up to the first index past the end of
\* one of them, where it panics.
WindowReads(conf_map, hann) ==
    0..Min(SCORE_SIZE * SCORE_SIZE - 1, Min(conf_map.len, Len(hann)))

\* The indices at which lines 85-90 read offset_map and size_map, when the
\* windowing loop has finished and the maximum reaches the threshold.
PeakReads(conf_map, hann, threshold, max_idx, max_score) ==
    IF /\ conf_map.len >= SCORE_SIZE * SCORE_SIZE
       /\ Len(hann) >= SCORE_SIZE * SCORE_SIZE
       /\ ReachesThreshold(max_score, threshold)
    THEN {0 * ChannelStride + (max_idx \div SCORE_SIZE) * SCORE_SIZE + (max_idx % SCORE_SIZE),
          1 * ChannelStride + (max_idx \div SCORE_SIZE) * SCORE_SIZE + (max_idx % SCORE_SIZE)}
    ELSE {}

InitGrid ==
    /\ \E cfg \in GridConfigs :
          /\ config = cfg
          /\ hanning = WithConfig(cfg).hanning
          /\ template = WithConfig(cfg).template
          /\ rect_last = WithConfig(cfg).rect_last
    /\ calls = 0
    /\ ret = [kind |-> "none"]
    /\ last = NoCall
    /\ \E row \in {0, config.score_size \div 2, config.score_size - 1},
          val \in {20, 90}, bg \in {0, 10}, r \in DecodeRects :
          LET n == config.score_size
              hot == row * n + row
          IN  fin = DecodeInput(ConfMap(n * n, hot, val, bg),
                                PairMap(2 * n * n, hot, Quarter, Quarter, Quarter),
                                PairMap(2 * n * n, hot, Zero, Zero, Zero),
                                r, config.search_factor, config.score_threshold,
                                NoRounding)
    /\ fout = NotApplied

ApplyGrid ==
    /\ ~fout.done
    /\ LET out == process_outputs(fin.conf_map, fin.size_map, fin.offset_map,
                                  hanning, fin.rect, fin.crop_size,
                                  fin.threshold, fin.rnd)
       IN  fout' = [done |-> TRUE, out |-> out,
                    window |-> WindowReads(fin.conf_map, hanning),
                    peak |-> PeakReads(fin.conf_map, hanning, fin.threshold,
                                       out.max_idx, out.max_score)]
    /\ UNCHANGED <<config, hanning, template, rect_last, calls, ret, last, fin>>

SpecGrid == InitGrid /\ [][ApplyGrid]_vars

----------------------------------------------------------------------------
(* Claims about the tracker, checked under Spec.                           *)

\* The step is a call of update.
UpdateStep == calls' = calls + 1 /\ last'.op = "update"

\* C1: update on a tracker that never received init returns Ok with
\* success = false, score = 0 and a zero box, does not invoke the inference
\* collaborator, and leaves rect_last and template as they were.
C1_UpdateBeforeInit ==
    [][(UpdateStep /\ ~is_initialized(Self)) =>
          /\ ret' = [kind |-> "ok", result |-> DefaultResult]
          /\ ~ret'.result.success
          /\ ret'.result.score = 0
          /\ ret'.result.bbox = <<0, 0, 0, 0>>
          /\ ~last'.trace.inferred
          /\ rect_last' = rect_last
          /\ template' = None]_vars

C1_Witness ==
    /\ last.op = "update"
    /\ ~is_initialized(Self)
    /\ ret.kind = "ok"

\* C2: init(image, box), in whatever state it is called, returns with the
\* tracker in Tracking, last_box = box and the template the one built from
\* this image and box.
C2_InitAlwaysTracks ==
    last.op = "init" =>
        /\ ret.kind = "unit"
        /\ is_initialized(Self)
        /\ rect_last = ToArray(last.bbox)
        /\ template = Some(CropAndPreprocess(last.image, last.bbox,
                                             config.template_factor,
                                             config.template_size).tensor)

\* C3: an update, whatever its outcome, leaves the template, the Hanning
\* window and the configuration as they were, so a tracker in Tracking stays
\* in Tracking; the template changes only in init.
C3_UpdateKeepsTemplate ==
    [][/\ UpdateStep => /\ template' = template
                        /\ hanning' = hanning
                        /\ config' = config
                        /\ (is_initialized(Self) => template'.some)
       /\ template' # template => last'.op = "init"]_vars

C3_Witness ==
    /\ last.op = "update"
    /\ is_initialized(Self)
    /\ last.trace.decoded
    /\ ret.kind = "ok"
    /\ ~ret.result.success

\* C6: in Tracking, an update that returns a result leaves last_box equal to
\* the returned bbox, success or not; and every update crops around the
\* last_box it finds, and back-projects from that box with the crop size of
\* that crop.
C6_Inv ==
    (last.op = "update" /\ is_initialized(Self) /\ ret.kind = "ok") =>
        get_bbox(Self) = ret.result.bbox

C6_Step ==
    (UpdateStep /\ is_initialized(Self)) =>
        /\ last'.trace.crop_box = rect_last
        /\ last'.trace.crop_size = CropSz(FromArray(rect_last), config.search_factor)
        /\ last'.trace.decoded => last'.trace.origin = rect_last

C6_LastBoxIsReturnedBox == [](C6_Inv) /\ [][C6_Step]_vars

\* An update that cropped around a box no init set (an earlier update moved
\* it there), and moved it again.
C6_Witness ==
    /\ last.op = "update"
    /\ ret.kind = "ok"
    /\ ret.result.success
    /\ last.trace.decoded
    /\ last.trace.crop_box \notin {ToArray(b) : b \in InitBoxes}
    /\ last.trace.crop_box # rect_last

\* The collaborator failed at one of its three steps.
CollabFailed(collab) == ~collab.set_ok \/ ~collab.run_ok \/ ~collab.get_ok

\* The kind of error of the first step that failed.
FailureKind(collab) ==
    IF ~collab.set_ok THEN "InputError"
    ELSE IF ~collab.run_ok THEN "RunError"
    ELSE "OutputError"

\* C7: when the collaborator fails during update, update returns an Err of
\* the matching kind, never Ok; the decoder is not run, and last_box and
\* the template are as before the call.
C7_InferenceErrorPropagates ==
    [][(UpdateStep /\ last'.trace.inferred /\ CollabFailed(last'.collab)) =>
          /\ ret' = [kind |-> "err", err |-> FailureKind(last'.collab)]
          /\ ~last'.trace.decoded
          /\ rect_last' = rect_last
          /\ template' = template]_vars

C7_Witness ==
    /\ last.op = "update"
    /\ last.trace.inferred
    /\ ~last.collab.run_ok
    /\ ret.kind = "err"

\* The collaborator returned, with outputs that are not three maps of
\* 256, 512 and 512 values.
MisShaped(collab) ==
    /\ ~CollabFailed(collab)
    /\ \/ Len(collab.outputs) # 3
       \/ collab.outputs[1].len # ConfLen
       \/ collab.outputs[2].len # PairLen
       \/ collab.outputs[3].len # PairLen

\* C8: when the collaborator returns mis-shaped outputs, update returns an
\* error: it neither panics nor returns an Ok result.
C8_ShapeMismatchIsError ==
    (last.op = "update" /\ last.trace.inferred /\ MisShaped(last.collab)) =>
        ret.kind = "err"

----------------------------------------------------------------------------
(* Claims about process_outputs, checked under SpecDecode.                 *)

\* The values of the windowed confidence map, and their maximum.
WindowedValues(conf_map, hann) ==
    {ConfAt(conf_map, i) * hann[i + 1] : i \in 0..(ConfLen - 1)}

WindowedMax(conf_map, hann) ==
    CHOOSE m \in WindowedValues(conf_map, hann) :
        \A v \in WindowedValues(conf_map, hann) : v <= m

\* m score units are below the threshold [n, d].
Below(m, threshold) == m * threshold.d < threshold.n

\* C4: when the windowed maximum is below the threshold, process_outputs
\* returns success = false, score = that maximum and bbox = the previous box,
\* and leaves the caller's rect_last as it was.
C4_LowConfidenceKeepsBox ==
    (fout.done /\ Below(WindowedMax(fin.conf_map, hanning), fin.threshold)) =>
        /\ ~fout.out.panicked
        /\ ~fout.out.result.success
        /\ fout.out.result.score = WindowedMax(fin.conf_map, hanning)
        /\ fout.out.result.bbox = fin.rect
        /\ fout.out.rect_last = fin.rect

C4_Witness ==
    /\ fout.done
    /\ Below(WindowedMax(fin.conf_map, hanning), fin.threshold)
    /\ fin.rect[3] > 0
    /\ fin.crop_size > 0
    /\ ~fout.out.result.success

\* C5: process_outputs returns success = true exactly when the windowed
\* maximum is >= the threshold; a maximum equal to the threshold is a success.
C5_ThresholdInclusive ==
    fout.done =>
        /\ ~fout.out.panicked
        /\ fout.out.result.success <=>
              ~Below(WindowedMax(fin.conf_map, hanning), fin.threshold)

C5_Witness ==
    /\ fout.done
    /\ WindowedMax(fin.conf_map, hanning) * fin.threshold.d = fin.threshold.n
    /\ fout.out.result.success

\* The windowed maximum sits at the cell, and nowhere before it.
PeakAt(conf_map, hann, cell) ==
    /\ \A i \in 0..(ConfLen - 1) :
          ConfAt(conf_map, i) * hann[i + 1] <= ConfAt(conf_map, cell) * hann[cell + 1]
    /\ \A i \in 0..(cell - 1) :
          ConfAt(conf_map, i) * hann[i + 1] < ConfAt(conf_map, cell) * hann[cell + 1]

\* The case of C10: crop_size is the one crop_and_preprocess computes for the
\* previous box, the maximum reaches the threshold at cell (8, 8), the offset
\* there is zero and the size there is the previous box's share of the crop.
C10_Case ==
    /\ fin.crop_size > 0
    /\ fin.crop_size = CropAndPreprocess(NoImage, FromArray(fin.rect), fin.factor,
                                         TemplateSize).crop_size
    /\ PeakAt(fin.conf_map, hanning, Cell(8, 8))
    /\ ~Below(WindowedMax(fin.conf_map, hanning), fin.threshold)
    /\ PairAt(fin.offset_map, Cell(8, 8)) = Zero
    /\ PairAt(fin.offset_map, ChannelStride + Cell(8, 8)) = Zero
    /\ PairAt(fin.size_map, Cell(8, 8)) = Rat(fin.rect[3], fin.crop_size)
    /\ PairAt(fin.size_map, ChannelStride + Cell(8, 8)) = Rat(fin.rect[4], fin.crop_size)

\* C10: in that case the decoded box is the previous box to within one pixel
\* in each of x, y, width and height.
C10_DecodeInvertsCrop ==
    (fout.done /\ C10_Case) =>
        /\ ~fout.out.panicked
        /\ fout.out.result.success
        /\ \A k \in 1..4 : Abs(fout.out.result.bbox[k] - fin.rect[k]) <= 1

\* The case, with a floor that came out one low.
C10_Witness ==
    /\ fout.done
    /\ C10_Case
    /\ fout.out.result.success
    /\ fout.out.result.bbox[3] = fin.rect[3] - 1

----------------------------------------------------------------------------
(* Claims about crop_and_preprocess, checked under SpecCrop.               *)

\* The box lies wholly outside the image, on the left, top, right or bottom.
OutOfFrame(image, bbox) ==
    \/ bbox.x + bbox.width <= 0
    \/ bbox.y + bbox.height <= 0
    \/ bbox.x >= image.w
    \/ bbox.y >= image.h

\* C9: for every image and every box with width, height >= 0, every write
\* into the padded crop has its row and column in [0, crop_size), the call
\* does not panic, and a box wholly out of frame gives a tensor whose every
\* value is the normalized value of pixel 0.
C9_CropIsTotal ==
    (fout.done /\ fin.bbox.width >= 0 /\ fin.bbox.height >= 0) =>
        /\ \A rc \in fout.writes :
              /\ 0 <= rc[1] /\ rc[1] < fout.out.crop_size
              /\ 0 <= rc[2] /\ rc[2] < fout.out.crop_size
        /\ ~fout.out.panicked
        /\ OutOfFrame(fin.image, fin.bbox) =>
              /\ Len(fout.out.tensor) = fin.output_size * fin.output_size * 3
              /\ \A i \in 1..Len(fout.out.tensor) :
                    fout.out.tensor[i] = Normalize(0, (i - 1) % 3)

\* C11: for every box with width, height >= 0 and every factor > 0, whatever
\* the image and the position of the box, the crop size that
\* crop_and_preprocess returns is ceil(sqrt(width * height) * factor): the
\* least c >= 0 with c^2 >= factor^2 * width * height.
C11_CropSizeIsCeilSqrt ==
    (/\ fout.done /\ ~fout.out.panicked
     /\ fin.bbox.width >= 0 /\ fin.bbox.height >= 0 /\ fin.factor > 0) =>
        LET c == fout.out.crop_size
            n == fin.factor * fin.factor * fin.bbox.width * fin.bbox.height
        IN  /\ c >= 0
            /\ c * c >= n
            /\ c = 0 \/ (c - 1) * (c - 1) < n

----------------------------------------------------------------------------
(* Claims about find_max, checked under SpecFindMax.                       *)

\* C12: over a non-empty array find_max returns the largest value and the
\* index of its first occurrence: the value is the one at the index, every
\* earlier element is smaller and no later element is greater.
C12_FindMaxFirstOccurrence ==
    (fout.done /\ fin.n > 0) =>
        LET idx == fout.out[1]
            val == fout.out[2]
        IN  /\ idx \in 0..(fin.n - 1)
            /\ fin.arr[idx] = val
            /\ \A i \in 0..(idx - 1) : fin.arr[i] < val
            /\ \A i \in (idx + 1)..(fin.n - 1) : fin.arr[i] <= val
            /\ (fin.arr = TestArr) => (idx = 3 /\ val = 9)

\* The maximum occurs again after the index returned, which is not the first
\* index of the array.
C12_Witness ==
    /\ fout.done
    /\ fout.out[1] > 0
    /\ \E i \in (fout.out[1] + 1)..(fin.n - 1) : fin.arr[i] = fout.out[2]

----------------------------------------------------------------------------
(* Claims about the score grid, checked under SpecGrid.                    *)

\* C13: for a tracker constructed with score_size n and maps of an n x n
\* grid, the Hanning window has n * n entries, the decoder windows and scans
\* all n * n cells, reads the two channels of the size and offset maps at the
\* peak cell and n * n past it, and every index it reads is inside the
\* window and the maps: it does not panic.
C13_GridIsConfigured ==
    fout.done =>
        LET n == config.score_size
        IN  /\ Len(hanning) = n * n
            /\ ~fout.out.panicked
            /\ fout.window = 0..(n * n - 1)
            /\ \A i \in fout.window : i < Len(hanning) /\ i < fin.conf_map.len
            /\ \A i \in fout.peak : i < fin.size_map.len /\ i < fin.offset_map.len
            /\ fout.out.result.success =>
                  fout.peak = {fout.out.max_idx, n * n + fout.out.max_idx}

----------------------------------------------------------------------------
(* A last box of zero area, checked under Spec.                            *)

ZeroArea(rect) == rect[3] * rect[4] = 0

\* After an update that ran from a last box of zero area, with outputs of
\* the expected shapes if the collaborator returned any: the search crop had
\* side 0, the call did not panic, a successful decode returned a box of
\* width 0 and height 0, and the last box still has zero area.
C14_Inv ==
    (last.op = "update" /\ ZeroArea(last.trace.crop_box) /\ ~MisShaped(last.collab)) =>
        /\ last.trace.crop_size = 0
        /\ ret.kind # "panic"
        /\ (ret.kind = "ok" /\ ret.result.success) =>
              (ret.result.bbox[3] = 0 /\ ret.result.bbox[4] = 0)
        /\ ZeroArea(rect_last)

\* An update starts from the last box, and only init gives a last box of
\* zero area a positive area.
C14_Step ==
    /\ (UpdateStep /\ is_initialized(Self)) => last'.trace.crop_box = rect_last
    /\ (ZeroArea(rect_last) /\ ~ZeroArea(rect_last')) => last'.op = "init"

\* C14: a last box of zero area is absorbing under update: the search crop
\* size is 0, update does not crash, a successful decode returns width 0 and
\* height 0, and the last box keeps zero area through any number of updates;
\* only init restores a positive area.
C14_ZeroAreaIsAbsorbing == [](C14_Inv) /\ [][C14_Step]_vars

====
